---- MODULE Spec2Model ----
(***************************************************************************)
(* PyRisk (world.py): the board graph built from the connection chains,    *)
(* the process-wide game state, and the operations reset, attack and       *)
(* next_player of the functional API.                                      *)
(***************************************************************************)
EXTENDS Integers, Sequences, FiniteSets, TLC

(* ------------------------------ bounds -------------------------------- *)
\* reset is called with 1..MaxPlayers players.
MaxPlayers == 3
\* A forced position puts 1..MaxTroops troops on each territory.
MaxTroops == 3

(* --------------------------- board definition ------------------------- *)
\* CONNECT.strip().splitlines(), each line split on "--" and stripped.
CONNECT ==
  << \* one entry per text line 14..47 of the source; a blank line splits to <<"">>
     << "Alaska", "Northwest Territories", "Alberta", "Alaska" >>,
     << "Alberta", "Ontario", "Greenland", "Northwest Territories" >>,
     << "Greenland", "Quebec", "Ontario", "Eastern United States", "Quebec" >>,
     << "Alberta", "Western United States", "Ontario", "Northwest Territories" >>,
     << "Western United States", "Eastern United States", "Mexico", "Western United States" >>,
     << "" >>,
     << "Venezuala", "Peru", "Argentina", "Brazil" >>,
     << "Peru", "Brazil", "Venezuala" >>,
     << "" >>,
     << "North Africa", "Egypt", "East Africa", "North Africa" >>,
     << "North Africa", "Congo", "East Africa", "South Africa", "Congo" >>,
     << "East Africa", "Madagascar", "South Africa" >>,
     << "" >>,
     << "Indonesia", "Western Australia", "Eastern Australia", "New Guinea", "Indonesia" >>,
     << "Western Australia", "New Guinea" >>,
     << "" >>,
     << "Iceland", "Great Britain", "Western Europe", "Southern Europe", "Northern Europe", "Western Europe" >>,
     << "Northern Europe", "Great Britain", "Scandanavia", "Northern Europe", "Ukraine", "Scandanavia", "Iceland" >>,
     << "Southern Europe", "Ukraine" >>,
     << "" >>,
     << "Middle East", "India", "South East Asia", "China", "Mongolia", "Japan", "Kamchatka", "Yakutsk", "Irkutsk", "Kamchatka", "Mongolia", "Irkutsk" >>,
     << "Yakutsk", "Siberia", "Irkutsk" >>,
     << "China", "Siberia", "Mongolia" >>,
     << "Siberia", "Ural", "China", "Afghanistan", "Ural" >>,
     << "Middle East", "Afghanistan", "India", "China" >>,
     << "" >>,
     << "Mexico", "Venezuala" >>,
     << "Brazil", "North Africa" >>,
     << "Western Europe", "North Africa", "Southern Europe", "Egypt", "Middle East", "East Africa" >>,
     << "Southern Europe", "Middle East", "Ukraine", "Afghanistan", "Ural" >>,
     << "Ukraine", "Ural" >>,
     << "Greenland", "Iceland" >>,
     << "Alaska", "Kamchatka" >>,
     << "South East Asia", "Indonesia" >>
  >>

\* The order of Python's string comparison on the territory names, which is
\* what sorted() uses.
NameOrder ==
  <<
     "Afghanistan", "Alaska", "Alberta", "Argentina",
     "Brazil", "China", "Congo", "East Africa",
     "Eastern Australia", "Eastern United States", "Egypt", "Great Britain",
     "Greenland", "Iceland", "India", "Indonesia",
     "Irkutsk", "Japan", "Kamchatka", "Madagascar",
     "Mexico", "Middle East", "Mongolia", "New Guinea",
     "North Africa", "Northern Europe", "Northwest Territories", "Ontario",
     "Peru", "Quebec", "Scandanavia", "Siberia",
     "South Africa", "South East Asia", "Southern Europe", "Ukraine",
     "Ural", "Venezuala", "Western Australia", "Western Europe",
     "Western United States", "Yakutsk"
  >>

\* The lines of CONNECT the game is played on: the chain
\* Peru--Brazil--Venezuala.  The deal of reset enumerates every shuffle of
\* the territory list, so the game state is explored on this part of the board.
BoardLines == << CONNECT[8] >>

(* ------------------------------ helpers ------------------------------- *)
Max(a, b) == IF a >= b THEN a ELSE b

\* Python's a % b for b # 0: the result has the sign of b.
PyMod(a, b) == IF b > 0 THEN a % b ELSE -((-a) % (-b))

\* x in list
InList(x, list) == \E i \in 1..Len(list) : list[i] = x

\* defaultdict(list).__getitem__: a missing key is inserted with [].
Touch(nb, k) == IF k \in DOMAIN nb THEN nb ELSE nb @@ (k :> << >>)

\* Mutant: the name is appended without the membership test.
AddNeighborAlways(nb, x, y) ==
  [Touch(nb, x) EXCEPT ![x] = Append(@, y)]

\* if y not in d[x]: d[x].append(y)
AddNeighbor(nb, x, y) ==
  LET d == Touch(nb, x)
  IN  IF InList(y, d[x]) THEN d ELSE [d EXCEPT ![x] = Append(@, y)]

\* e, with v evaluated first: each step of the loops below works on the
\* mapping the step before has finished, as the statements of the code do.
After(v, e) == IF v = v THEN e ELSE e

\* Mutant: only the forward direction of each pair is recorded.
RECURSIVE AddChainOneWay(_, _, _)
AddChainOneWay(nb, vals, i) ==
  IF i >= Len(vals) THEN nb
  ELSE LET d == Touch(AddNeighbor(nb, vals[i], vals[i + 1]), vals[i + 1])
       IN  After(d, AddChainOneWay(d, vals, i + 1))

\* for a, b in zip(vals, vals[1:]): the pairs from position i on.
RECURSIVE AddChain(_, _, _)
AddChain(nb, vals, i) ==
  IF i >= Len(vals) THEN nb
  ELSE LET d == AddNeighbor(AddNeighbor(nb, vals[i], vals[i + 1]),
                            vals[i + 1], vals[i])
       IN  After(d, AddChain(d, vals, i + 1))

\* for line in lines: the lines from position i on.
RECURSIVE AddLines(_, _, _)
AddLines(nb, lines, i) ==
  IF i > Len(lines) THEN nb
  ELSE LET d == AddChain(nb, lines[i], 1)
       IN  After(d, AddLines(d, lines, i + 1))

\* sorted(keys)
Sorted(keys) == SelectSeq(NameOrder, LAMBDA t : t \in keys)

\* _build_graph() run on an adjacency mapping nb: the mapping it leaves.
_build_graph(nb, lines) == AddLines(nb, lines, 1)

\* The empty defaultdict.
EmptyDict == [k \in {} |-> << >>]

\* The adjacency mapping built from the whole of CONNECT, and
\* n_actions = sum(len(v) for v in _NEIGHBORS.values()) computed on it.
FullGraph == _build_graph(EmptyDict, CONNECT)

RECURSIVE SumLen(_, _)
SumLen(nb, keys) ==
  IF keys = {} THEN 0
  ELSE LET k == CHOOSE x \in keys : TRUE
       IN  Len(nb[k]) + SumLen(nb, keys \ {k})

n_actions == SumLen(FullGraph, DOMAIN FullGraph)

\* The adjacency mapping and territory list after the module is imported,
\* on the part of the board the game is played on.
BuiltGraph == _build_graph(EmptyDict, BoardLines)
_TERRITORIES == Sorted(DOMAIN BuiltGraph)
Names == {_TERRITORIES[i] : i \in 1..Len(_TERRITORIES)}

(* ------------------------------- state -------------------------------- *)
VARIABLES
  _NEIGHBORS,  \* dict: territory name -> list of neighbour names
  _OWNER,      \* dict: territory name -> player index
  _TROOPS,     \* dict: territory name -> troop count
  _PLAYERS,    \* list of player names
  _CUR,        \* turn pointer
  _LAST,       \* last-event message
  op,          \* the most recent call and its arguments
  result,      \* what that call returned ("None", "True", "False") or raised
  round_start, \* observer: the turn pointer when the current round began
  round_calls, \* observer: next_player() calls made in the current round
  taken_from   \* observer: <<owner of tgt before the call>> after an attack

vars == << _NEIGHBORS, _OWNER, _TROOPS, _PLAYERS, _CUR, _LAST, op, result,
           round_start, round_calls, taken_from >>

\* f"AI_{i}"
Digit == << "0", "1", "2", "3", "4", "5", "6", "7", "8", "9" >>
PlayerName(i) == "AI_" \o Digit[i + 1]

\* [f"AI_{i}" for i in range(n_players)]; range(n) is empty for n <= 0.
PlayerList(n_players) == [i \in 1..Max(n_players, 0) |-> PlayerName(i - 1)]

\* The state right after import: the graph is built, no game started.
Init ==
  /\ _NEIGHBORS = BuiltGraph
  /\ _OWNER = EmptyDict
  /\ _TROOPS = EmptyDict
  /\ _PLAYERS = << >>
  /\ _CUR = 0
  /\ _LAST = ""
  /\ op = << "import" >>
  /\ result = "None"
  /\ round_start = 0
  /\ round_calls = 0
  /\ taken_from = << >>

(* ------------------------------- reset -------------------------------- *)
\* Every outcome of random.shuffle(deck): the orderings of _TERRITORIES.
Shuffles ==
  {d \in [1..Len(_TERRITORIES) -> Names] :
     \A i, j \in 1..Len(_TERRITORIES) : d[i] = d[j] => i = j}

\* Mutant: the deck is dealt in blocks (idx // n_players) instead of
\* round-robin.
DealInBlocks(deck, n_players) ==
  [t \in Names |->
     ((CHOOSE i \in 1..Len(deck) : deck[i] = t) - 1) \div n_players]

\* {t: idx % n_players for idx, t in enumerate(deck)}
Deal(deck, n_players) ==
  [t \in Names |->
     PyMod((CHOOSE i \in 1..Len(deck) : deck[i] = t) - 1, n_players)]

\* Mutant: the troop counts are set only when there are none yet.
FreshTroopsOnlyOnce ==
  IF DOMAIN _TROOPS = Names THEN _TROOPS ELSE [t \in Names |-> 1]

\* {t: 1 for t in _TERRITORIES}
FreshTroops == [t \in Names |-> 1]

reset(n_players) ==
  /\ op' = << "reset", n_players >>
  /\ _PLAYERS' = PlayerList(n_players)
  /\ _CUR' = 0
  /\ _LAST' = "Game reset"
  /\ IF n_players = 0 /\ Len(_TERRITORIES) > 0
       THEN \* idx % 0 raises; the three assignments above are already made
            /\ result' = "ZeroDivisionError"
            /\ UNCHANGED << _OWNER, _TROOPS >>
       ELSE /\ \E deck \in Shuffles : _OWNER' = Deal(deck, n_players)
            /\ _TROOPS' = FreshTroops
            /\ result' = "None"
  /\ UNCHANGED _NEIGHBORS

(* ------------------------------- attack ------------------------------- *)
\* Mutant: a territory counts as adjacent to itself.
AdjacentOrSelf(att, tgt) ==
  att = tgt \/ InList(tgt, Touch(_NEIGHBORS, att)[att])

\* tgt in _NEIGHBORS[att], on the mapping after the lookup of att
Adjacent(att, tgt) == InList(tgt, Touch(_NEIGHBORS, att)[att])

\* Mutant: "and" in place of "or" in the ownership test.
ValidOwnershipAnd(att, tgt) == ~(_OWNER[att] # _CUR /\ _OWNER[tgt] = _CUR)

\* the negation of: _OWNER[att] != _CUR or _OWNER[tgt] == _CUR
ValidOwnership(att, tgt) == ~(_OWNER[att] # _CUR \/ _OWNER[tgt] = _CUR)

\* Mutant: the margin is off by one (< instead of <=).
EnoughTroopsOffByOne(att, tgt) == ~(_TROOPS[att] < _TROOPS[tgt] + 1)

\* Mutant: the margin is off by one the other way (+ 2 instead of + 1).
EnoughTroopsStrict(att, tgt) == ~(_TROOPS[att] <= _TROOPS[tgt] + 2)

\* Mutant: no margin is asked for (>= in place of > ... + 1).
EnoughTroopsNoMargin(att, tgt) == _TROOPS[att] >= _TROOPS[tgt]

\* the negation of: _TROOPS[att] <= _TROOPS[tgt] + 1
EnoughTroops(att, tgt) == ~(_TROOPS[att] <= _TROOPS[tgt] + 1)

\* Mutant: the whole garrison moves.
MoveAll(a) == a

\* Mutant: the half is rounded up.
MoveCeil(a) == Max(1, (a + 1) \div 2)

\* max(1, _TROOPS[att] // 2)
Move(a) == Max(1, a \div 2)

\* (_CUR - 1) % len(_PLAYERS)
Prev == PyMod(_CUR - 1, Len(_PLAYERS))

\* Mutant: the message names the player who owned tgt.
TookMessageFromOwner(tgt) ==
  _PLAYERS[_CUR + 1] \o " took " \o tgt \o " from "
    \o _PLAYERS[_OWNER[tgt] + 1]

\* f"{_PLAYERS[_CUR]} took {tgt} from {_PLAYERS[prev]}"
TookMessage(tgt) ==
  _PLAYERS[_CUR + 1] \o " took " \o tgt \o " from " \o _PLAYERS[Prev + 1]

\* A dict lookup that raises KeyError: _OWNER[att], then _OWNER[tgt] unless
\* the "or" is already decided, then _TROOPS[att] and _TROOPS[tgt].
AttackKeyError(att, tgt) ==
  \/ att \notin DOMAIN _OWNER
  \/ (_OWNER[att] = _CUR /\ tgt \notin DOMAIN _OWNER)
  \/ (ValidOwnership(att, tgt)
        /\ (att \notin DOMAIN _TROOPS \/ tgt \notin DOMAIN _TROOPS))

\* Mutant: without "global _LAST" the message goes to a local variable.
RejectLocal(message) ==
  /\ result' = "False"
  /\ UNCHANGED << _OWNER, _TROOPS, _LAST >>

\* A failed validation: _LAST = <message>; return False
Reject(message) ==
  /\ _LAST' = message
  /\ result' = "False"
  /\ UNCHANGED << _OWNER, _TROOPS >>

\* Mutant: the moved troops are added to the defenders (+= for =).
CaptureAdding(att, tgt) ==
  /\ _OWNER' = [_OWNER EXCEPT ![tgt] = _CUR]
  /\ _TROOPS' = [_TROOPS EXCEPT ![att] = @ - Move(_TROOPS[att]),
                                ![tgt] = @ + Move(_TROOPS[att])]
  /\ _LAST' = TookMessage(tgt)
  /\ result' = "True"

\* The success branch.  With no players, % len(_PLAYERS) raises after the
\* owner and the troops are written.
Capture(att, tgt) ==
  /\ _OWNER' = [_OWNER EXCEPT ![tgt] = _CUR]
  /\ _TROOPS' = [_TROOPS EXCEPT ![att] = @ - Move(_TROOPS[att]),
                                ![tgt] = Move(_TROOPS[att])]
  /\ IF Len(_PLAYERS) = 0
       THEN _LAST' = _LAST /\ result' = "ZeroDivisionError"
       ELSE _LAST' = TookMessage(tgt) /\ result' = "True"

\* Mutant: the ownership test comes before the adjacency test.
attack_ownership_first(att, tgt) ==
  /\ op' = << "attack", att, tgt >>
  /\ IF ~ValidOwnership(att, tgt)
       THEN Reject("Invalid ownership") /\ UNCHANGED _NEIGHBORS
     ELSE /\ _NEIGHBORS' = Touch(_NEIGHBORS, att)
          /\ IF ~Adjacent(att, tgt) THEN Reject("Invalid adjacency")
             ELSE IF ~EnoughTroops(att, tgt) THEN Reject("Not enough troops")
             ELSE Capture(att, tgt)
  /\ UNCHANGED << _PLAYERS, _CUR >>

\* Mutant: a successful attack ends the turn.
attack_ends_turn(att, tgt) ==
  /\ op' = << "attack", att, tgt >>
  /\ _NEIGHBORS' = Touch(_NEIGHBORS, att)
  /\ IF ~Adjacent(att, tgt)
       THEN Reject("Invalid adjacency") /\ UNCHANGED _CUR
     ELSE IF ~ValidOwnership(att, tgt)
       THEN Reject("Invalid ownership") /\ UNCHANGED _CUR
     ELSE IF ~EnoughTroops(att, tgt)
       THEN Reject("Not enough troops") /\ UNCHANGED _CUR
     ELSE Capture(att, tgt) /\ _CUR' = (_CUR + 1) % Len(_PLAYERS)
  /\ UNCHANGED _PLAYERS

attack(att, tgt) ==
  /\ op' = << "attack", att, tgt >>
  /\ _NEIGHBORS' = Touch(_NEIGHBORS, att)
  /\ IF ~Adjacent(att, tgt) THEN Reject("Invalid adjacency")
     ELSE IF AttackKeyError(att, tgt)
       THEN /\ result' = "KeyError"
            /\ UNCHANGED << _OWNER, _TROOPS, _LAST >>
     ELSE IF ~ValidOwnership(att, tgt) THEN Reject("Invalid ownership")
     ELSE IF ~EnoughTroops(att, tgt) THEN Reject("Not enough troops")
     ELSE Capture(att, tgt)
  /\ UNCHANGED << _PLAYERS, _CUR >>

(* ----------------------------- next_player ---------------------------- *)
\* Mutant: the pointer is advanced without wrapping.
AdvanceNoWrap(cur, n) == cur + 1

\* (_CUR + 1) % len(_PLAYERS)
Advance(cur, n) == PyMod(cur + 1, n)

next_player ==
  /\ op' = << "next_player" >>
  /\ IF Len(_PLAYERS) = 0
       THEN \* % 0 raises
            /\ result' = "ZeroDivisionError"
            /\ UNCHANGED _CUR
       ELSE /\ _CUR' = Advance(_CUR, Len(_PLAYERS))
            /\ result' = "None"
  /\ UNCHANGED << _NEIGHBORS, _OWNER, _TROOPS, _PLAYERS, _LAST >>

(* ------------------------------ queries ------------------------------ *)
\* return _NEIGHBORS[terr]: the lookup inserts a missing key.
get_neighbors(terr) ==
  /\ op' = << "get_neighbors", terr >>
  /\ _NEIGHBORS' = Touch(_NEIGHBORS, terr)
  /\ result' = "List"
  /\ UNCHANGED << _OWNER, _TROOPS, _PLAYERS, _CUR, _LAST >>

\* Mutant: any() in place of all().
game_over_any ==
  \E i \in 1..Len(_TERRITORIES) :
    _OWNER[_TERRITORIES[i]] = _OWNER[_TERRITORIES[1]]

\* all(owner(t) == owner(_TERRITORIES[0]) for t in _TERRITORIES)
game_over ==
  \A i \in 1..Len(_TERRITORIES) :
    _OWNER[_TERRITORIES[i]] = _OWNER[_TERRITORIES[1]]

(* --------------------------- specifications --------------------------- *)
observer == << round_start, round_calls >>

\* The observer of attack notes who owned tgt before the call.
NoteOwner(tgt) ==
  taken_from' = IF tgt \in DOMAIN _OWNER THEN << _OWNER[tgt] >> ELSE << >>

DoReset ==
  /\ \E n \in 1..MaxPlayers : reset(n)
  /\ taken_from' = << >>
  /\ UNCHANGED observer

DoAttack ==
  /\ \E att, tgt \in Names : attack(att, tgt) /\ NoteOwner(tgt)
  /\ UNCHANGED observer

DoNextPlayer ==
  /\ next_player
  /\ taken_from' = << >>
  /\ UNCHANGED observer

Next == DoReset \/ DoAttack \/ DoNextPlayer

\* The driver of the public API, from the import on.
Spec == Init /\ [][Next]_vars

\* The troop counts of a forced position: 1..MaxTroops on every territory,
\* or, as in the attack scenario, 10 on one territory of a fresh board.
TroopPositions ==
  [Names -> 1..MaxTroops]
    \cup {[t \in Names |-> IF t = x THEN 10 ELSE 1] : x \in Names}

\* A position with n players set directly on the module's dicts, as a test of
\* attack does: any owner in range on every territory, any player to move,
\* and the troop counts one of positions.
Forced(positions) ==
  /\ _NEIGHBORS = BuiltGraph
  /\ \E n \in 1..MaxPlayers :
       /\ _PLAYERS = PlayerList(n)
       /\ _OWNER \in [Names -> 0..(n - 1)]
       /\ _CUR \in 0..(n - 1)
  /\ _TROOPS \in positions
  /\ _LAST = "Game reset"
  /\ op = << "forced" >>
  /\ result = "None"
  /\ taken_from = << >>

\* The observer is idle under Spec and SpecForced.
InitForced == Forced(TroopPositions) /\ round_start = 0 /\ round_calls = 0

\* The public API driven from any forced position.
SpecForced == InitForced /\ [][Next]_vars

\* The same driver with an observer that counts the next_player() calls of a
\* round: a round begins at the forced position, at a reset, and when the
\* previous round has had as many calls as there are players.
CountReset ==
  /\ \E n \in 1..MaxPlayers : reset(n)
  /\ taken_from' = << >>
  /\ round_start' = 0
  /\ round_calls' = 0

CountAttack ==
  /\ \E att, tgt \in Names : attack(att, tgt) /\ NoteOwner(tgt)
  /\ UNCHANGED observer

CountNextPlayer ==
  /\ next_player
  /\ taken_from' = << >>
  /\ IF Len(_PLAYERS) = 0 THEN UNCHANGED observer
     ELSE IF round_calls >= Len(_PLAYERS)
       THEN round_start' = _CUR /\ round_calls' = 1
       ELSE round_start' = round_start /\ round_calls' = round_calls + 1

NextCounted == CountReset \/ CountAttack \/ CountNextPlayer

\* Forced positions with 1 or MaxTroops troops on each territory.
InitCounted ==
  Forced([Names -> {1, MaxTroops}]) /\ round_start = _CUR /\ round_calls = 0

SpecCounted == InitCounted /\ [][NextCounted]_vars

\* The driver from the import on, called with names that are no territory.
AnyNames == Names \cup {"Atlantis"}

NamesAttack ==
  /\ \E att, tgt \in AnyNames : attack(att, tgt) /\ NoteOwner(tgt)
  /\ UNCHANGED observer

NamesGetNeighbors ==
  /\ \E terr \in AnyNames : get_neighbors(terr)
  /\ taken_from' = << >>
  /\ UNCHANGED observer

NextNames == DoReset \/ NamesAttack \/ NamesGetNeighbors \/ DoNextPlayer

SpecNames == Init /\ [][NextNames]_vars

\* The driver from the import on, with player counts down to -2.
AnyReset ==
  /\ \E n \in (-2)..MaxPlayers : reset(n)
  /\ taken_from' = << >>
  /\ UNCHANGED observer

NextAnyReset == AnyReset \/ DoAttack \/ DoNextPlayer

SpecAnyReset == Init /\ [][NextAnyReset]_vars

(* ------------------------------- claims ------------------------------- *)
NPlayers == Len(_PLAYERS)
Owned(p) == {t \in Names : _OWNER[t] = p}
FailureMessages == {"Invalid adjacency", "Invalid ownership", "Not enough troops"}

\* Adjacency as the connection chains state it: a and b are consecutive names
\* of one line of the board.
Linked(a, b) ==
  \E k \in 1..Len(BoardLines) : \E i \in 1..(Len(BoardLines[k]) - 1) :
    {BoardLines[k][i], BoardLines[k][i + 1]} = {a, b}

\* The step is the call attack(att, tgt), resp. reset(n): op records it.
AttackCalled(att, tgt) == op' = << "attack", att, tgt >>
ResetCalled(n) == op' = << "reset", n >>

\* C1: in every state reachable from any position with owners in
\* [0, n_players) and troops >= 1, by any sequence of attack, next_player and
\* reset(m) (m >= 1) calls, every territory has an owner in [0, n_players)
\* and a troop count >= 1; in particular a successful attack keeps it.
C1_OwnerAndTroopsInRange ==
  \A t \in Names :
    /\ t \in DOMAIN _OWNER /\ _OWNER[t] \in 0..(NPlayers - 1)
    /\ t \in DOMAIN _TROOPS /\ _TROOPS[t] >= 1

\* A successful attack in a 3-player game has left a single troop on the
\* captured territory, now owned by the last player.
C1_Witness ==
  /\ op[1] = "attack" /\ result = "True"
  /\ NPlayers = 3
  /\ _TROOPS[op[3]] = 1 /\ _OWNER[op[3]] = 2

\* C2: reset(n) with n >= 1 reinitializes the game state whatever the state
\* before: every territory has one owner in [0, n) and 1 troop, the turn
\* pointer is 0, there are n players and the message is the reset notice.
C2_ResetReinitializes ==
  [][\A n \in 1..MaxPlayers :
       ResetCalled(n) =>
         /\ DOMAIN _OWNER' = Names /\ DOMAIN _TROOPS' = Names
         /\ \A t \in Names : _OWNER'[t] \in 0..(n - 1) /\ _TROOPS'[t] = 1
         /\ _CUR' = 0
         /\ Len(_PLAYERS') = n
         /\ _LAST' = "Game reset"]_vars

\* reset(2) has been called (from a position with 3 players or more troops)
\* and left a 2-player game at its start.
C2_Witness ==
  /\ op = << "reset", 2 >>
  /\ NPlayers = 2 /\ _CUR = 0 /\ _LAST = "Game reset"
  /\ \A t \in Names : _TROOPS[t] = 1

\* C3: right after reset(n), for every shuffle, ownership is a round-robin
\* deal of some ordering of the territories, the numbers of territories of
\* any two players differ by at most 1, and when n is at most the number of
\* territories every player owns at least one.
C3_RoundRobinDeal ==
  (op[1] = "reset" /\ result = "None") =>
    LET n == op[2] IN
    /\ \E deck \in Shuffles :
         \A i \in 1..Len(deck) : _OWNER[deck[i]] = (i - 1) % n
    /\ \A p, q \in 0..(n - 1) :
         Cardinality(Owned(p)) - Cardinality(Owned(q)) <= 1
    /\ (n <= Cardinality(Names) =>
          \A p \in 0..(n - 1) : Owned(p) # {})

\* reset(2) has dealt two territories to player 0 and one to player 1.
C3_Witness ==
  /\ op = << "reset", 2 >>
  /\ Cardinality(Owned(0)) = 2 /\ Cardinality(Owned(1)) = 1

\* C4: an attack that returns failure leaves ownership, troop counts, the
\* turn pointer and the player list as they were, and sets the last-event
\* message to one of the three failure messages.
C4_FailureLeavesState ==
  [][\A att, tgt \in Names :
       (AttackCalled(att, tgt) /\ result' = "False") =>
         /\ _OWNER' = _OWNER /\ _TROOPS' = _TROOPS
         /\ _CUR' = _CUR /\ _PLAYERS' = _PLAYERS
         /\ _LAST' \in FailureMessages]_vars

\* A failed attack from a territory holding 10 troops: the troops are still
\* there.
C4_Witness ==
  /\ op[1] = "attack" /\ result = "False"
  /\ _LAST \in FailureMessages
  /\ _TROOPS[op[2]] = 10

\* C5: attack(att, tgt) returns success iff, before the call, tgt is linked
\* to att, att is owned by the current player, tgt is not, and
\* troops(att) > troops(tgt) + 1; otherwise it returns failure.
C5_SuccessIff ==
  [][\A att, tgt \in Names :
       AttackCalled(att, tgt) =>
         IF /\ Linked(att, tgt)
            /\ _OWNER[att] = _CUR /\ _OWNER[tgt] # _CUR
            /\ _TROOPS[att] > _TROOPS[tgt] + 1
         THEN result' = "True"
         ELSE result' = "False"]_vars

\* A successful attack by player 1 out of 3 with a margin above the minimum
\* (10 troops).
C5_Witness ==
  /\ op[1] = "attack" /\ result = "True"
  /\ NPlayers = 3 /\ _CUR = 1
  /\ _OWNER[op[2]] = 1 /\ _OWNER[op[3]] = 1
  /\ _TROOPS[op[2]] + _TROOPS[op[3]] = 10

\* C6: for every pair (att, tgt) where tgt is not linked to att (att = tgt
\* included) and every ownership and troop configuration, attack(att, tgt)
\* fails with the invalid-adjacency message and changes no owner or troop
\* count.
C6_NonAdjacentFails ==
  [][\A att, tgt \in Names :
       (AttackCalled(att, tgt) /\ ~Linked(att, tgt)) =>
         /\ result' = "False"
         /\ _LAST' = "Invalid adjacency"
         /\ _OWNER' = _OWNER /\ _TROOPS' = _TROOPS]_vars

\* An attack between two territories that are not linked, which would pass
\* the ownership and the troop check, has failed.
C6_Witness ==
  /\ op[1] = "attack" /\ result = "False" /\ _LAST = "Invalid adjacency"
  /\ op[2] # op[3] /\ ~Linked(op[2], op[3])
  /\ _OWNER[op[2]] = _CUR /\ _OWNER[op[3]] # _CUR
  /\ _TROOPS[op[2]] > _TROOPS[op[3]] + 1

\* C7 as stated: whenever troops(att) <= troops(tgt) + 1, attack fails with
\* the not-enough-troops message and changes nothing, whatever the adjacency
\* and the ownership.
C7_AsStated ==
  [][\A att, tgt \in Names :
       (AttackCalled(att, tgt) /\ _TROOPS[att] <= _TROOPS[tgt] + 1) =>
         /\ result' = "False"
         /\ _LAST' = "Not enough troops"
         /\ _OWNER' = _OWNER /\ _TROOPS' = _TROOPS]_vars

\* C7 (amended): whenever troops(att) <= troops(tgt) + 1, attack fails and
\* changes no owner, troop count, turn pointer or player; the message is
\* the not-enough-troops one when tgt is linked to att, att is owned by the
\* current player and tgt is not, and the message of the earlier failed
\* validation otherwise.
C7_TooFewTroopsFails ==
  [][\A att, tgt \in Names :
       (AttackCalled(att, tgt) /\ _TROOPS[att] <= _TROOPS[tgt] + 1) =>
         /\ result' = "False"
         /\ _OWNER' = _OWNER /\ _TROOPS' = _TROOPS
         /\ _CUR' = _CUR /\ _PLAYERS' = _PLAYERS
         /\ _LAST' = IF ~Linked(att, tgt) THEN "Invalid adjacency"
                     ELSE IF _OWNER[att] # _CUR \/ _OWNER[tgt] = _CUR
                       THEN "Invalid ownership"
                     ELSE "Not enough troops"]_vars

\* An attack on a linked enemy territory with a margin of exactly 1 (3
\* troops against 2) has failed for lack of troops.
C7_Witness ==
  /\ op[1] = "attack" /\ result = "False" /\ _LAST = "Not enough troops"
  /\ _OWNER[op[2]] = _CUR /\ _OWNER[op[3]] # _CUR
  /\ _TROOPS[op[2]] = 3 /\ _TROOPS[op[3]] = 2

\* C8 as stated: whenever troops(att) = troops(tgt) + 2, attack succeeds,
\* whatever the adjacency and the ownership.
C8_AsStated ==
  [][\A att, tgt \in Names :
       (AttackCalled(att, tgt) /\ _TROOPS[att] = _TROOPS[tgt] + 2) =>
         result' = "True"]_vars

\* C8 (amended): whenever troops(att) = troops(tgt) + 2, tgt is linked to
\* att, att is owned by the current player and tgt is not, attack succeeds.
C8_MinimumMarginSucceeds ==
  [][\A att, tgt \in Names :
       (/\ AttackCalled(att, tgt)
        /\ _TROOPS[att] = _TROOPS[tgt] + 2
        /\ Linked(att, tgt)
        /\ _OWNER[att] = _CUR /\ _OWNER[tgt] # _CUR) =>
         result' = "True"]_vars

\* A successful attack of 3 troops on 1 in a 2-player game: the only
\* successful attack that leaves 2 troops behind and moves 1.
C8_Witness ==
  /\ op[1] = "attack" /\ result = "True"
  /\ NPlayers = 2
  /\ _TROOPS[op[2]] = 2 /\ _TROOPS[op[3]] = 1

\* C9: on a successful attack with a = troops(att) before the call, the
\* target's owner becomes the current player, troops(att) becomes a - moved
\* and troops(tgt) becomes moved, with moved = max(1, a // 2), so the two add
\* up to a; 10 troops taking a 1-troop territory leave 5 on each.
C9_TransferOnSuccess ==
  [][\A att, tgt \in Names :
       (AttackCalled(att, tgt) /\ result' = "True") =>
         LET a == _TROOPS[att]
             half == a \div 2
             moved == IF half >= 1 THEN half ELSE 1
         IN  /\ _OWNER'[tgt] = _CUR
             /\ _TROOPS'[att] = a - moved
             /\ _TROOPS'[tgt] = moved
             /\ _TROOPS'[att] + _TROOPS'[tgt] = a
             /\ (a = 10 /\ _TROOPS[tgt] = 1) =>
                  (_TROOPS'[att] = 5 /\ _TROOPS'[tgt] = 5)]_vars

\* A successful attack has left 5 troops on the attacking and 5 on the
\* captured territory: the attacker had 10.
C9_Witness ==
  /\ op[1] = "attack" /\ result = "True"
  /\ _TROOPS[op[2]] = 5 /\ _TROOPS[op[3]] = 5
  /\ _OWNER[op[3]] = _CUR

\* C10: the turn pointer stays in [0, n); after k next_player() calls of a
\* round that began with the pointer at s, with any attack calls in between,
\* the pointer is (s + k) mod n, so after n calls it is s again, whether or
\* not the game is over or the player to move owns a territory.
C10_TurnPointerCycles ==
  /\ _CUR \in 0..(NPlayers - 1)
  /\ round_calls \in 0..NPlayers
  /\ _CUR = (round_start + round_calls) % NPlayers
  /\ (round_calls = NPlayers => _CUR = round_start)

\* Three next_player() calls in a 3-player game, in a round that began with
\* player 1 to move and in which player 2 made the last capture and finished
\* the game: the pointer is back at player 1, who owns nothing.
C10_Witness ==
  /\ op = << "next_player" >>
  /\ NPlayers = 3 /\ round_calls = 3 /\ round_start = 1 /\ _CUR = 1
  /\ \E t \in Names : _LAST = "AI_2 took " \o t \o " from AI_1"
  /\ game_over /\ Owned(1) = {}

\* C11: game_over() is true iff exactly one player owns every territory; it
\* is so in the very state an attack leaves by capturing the last territory
\* of another player, and false whenever two players own a territory.
C11_GameOverIffSingleOwner ==
  game_over <=> Cardinality({_OWNER[t] : t \in Names}) = 1

\* A capture from another player in a 3-player game has just left every
\* territory with the attacker: game_over() is true.
C11_Witness ==
  /\ op[1] = "attack" /\ result = "True"
  /\ NPlayers = 3
  /\ taken_from # << _CUR >>
  /\ Owned(_CUR) = Names
  /\ game_over

\* list as a set
Elems(list) == {list[i] : i \in 1..Len(list)}

\* C12: in the adjacency mapping built from the connection chains, B is a
\* neighbour of A iff A is a neighbour of B, and no territory is its own
\* neighbour; the same holds of the mapping the game consults.
C12_AdjacencySymmetric ==
  /\ \A a, b \in DOMAIN FullGraph :
       /\ b \in Elems(FullGraph[a]) <=> a \in Elems(FullGraph[b])
       /\ a \notin Elems(FullGraph[a])
  /\ \A a, b \in Names :
       /\ b \in Elems(_NEIGHBORS[a]) <=> a \in Elems(_NEIGHBORS[b])
       /\ a \notin Elems(_NEIGHBORS[a])

\* The whole graph has its 42 territories, with Alaska and Kamchatka
\* neighbours of each other, and an attack has consulted the mapping of the
\* game, where Brazil has its two neighbours.
C12_Witness ==
  /\ Cardinality(DOMAIN FullGraph) = 42
  /\ "Kamchatka" \in Elems(FullGraph["Alaska"])
  /\ "Alaska" \in Elems(FullGraph["Kamchatka"])
  /\ op[1] = "attack"
  /\ Elems(_NEIGHBORS["Brazil"]) = {"Peru", "Venezuala"}

\* C13: after the graph is built no public operation changes the adjacency
\* mapping, whatever names it is called with: its keys and every neighbour
\* list stay as built.
C13_AdjacencyNeverChanges ==
  /\ DOMAIN _NEIGHBORS = DOMAIN BuiltGraph
  /\ \A t \in DOMAIN BuiltGraph : _NEIGHBORS[t] = BuiltGraph[t]

\* C14: reset(n) with n <= 0 fails and installs nothing: players, turn
\* pointer, last event, owners and troops stay as they were, and no state
\* after a reset has an empty player list or an owner outside
\* [0, n_players).
C14_BadResetRejected ==
  [][\A n \in (-2)..0 :
       ResetCalled(n) =>
         /\ result' # "None"
         /\ _PLAYERS' = _PLAYERS /\ _CUR' = _CUR /\ _LAST' = _LAST
         /\ _OWNER' = _OWNER /\ _TROOPS' = _TROOPS
         /\ Len(_PLAYERS') >= 1
         /\ \A t \in DOMAIN _OWNER' : _OWNER'[t] \in 0..(Len(_PLAYERS') - 1)]_vars

\* C15: attack reports the first validation that fails, in the order
\* adjacency, ownership, troops: invalid adjacency whatever the owners and
\* troops; else invalid ownership whatever the troops; the
\* not-enough-troops message only when adjacency and ownership are valid
\* and troops(att) <= troops(tgt) + 1.
C15_FirstFailureReported ==
  [][\A att, tgt \in Names :
       AttackCalled(att, tgt) =>
         LET adj == Linked(att, tgt)
             own == _OWNER[att] = _CUR /\ _OWNER[tgt] # _CUR
             few == _TROOPS[att] <= _TROOPS[tgt] + 1
         IN  /\ ~adj => _LAST' = "Invalid adjacency"
             /\ (adj /\ ~own) => _LAST' = "Invalid ownership"
             /\ _LAST' = "Not enough troops" => (adj /\ own /\ few)
             /\ (adj /\ own /\ few) => _LAST' = "Not enough troops"]_vars

\* An attack that fails all three validations (not linked, attacker not
\* owned by the current player, no more troops than the target) has
\* reported the adjacency.
C15_Witness ==
  /\ op[1] = "attack" /\ result = "False" /\ _LAST = "Invalid adjacency"
  /\ op[2] # op[3] /\ ~Linked(op[2], op[3])
  /\ _OWNER[op[2]] # _CUR
  /\ _TROOPS[op[2]] <= _TROOPS[op[3]]

\* C16: on a successful attack the message names the current player, the
\* target and, as previous owner, player (current - 1) mod n_players, whoever
\* owned the target; with 2 players that is the owner the target had.
C16_MessageNamesPreviousTurn ==
  [][\A att, tgt \in Names :
       (AttackCalled(att, tgt) /\ result' = "True") =>
         LET n == Len(_PLAYERS)
             named == (_CUR + n - 1) % n
         IN  /\ _LAST' = "AI_" \o Digit[_CUR + 1] \o " took " \o tgt
                           \o " from " \o "AI_" \o Digit[named + 1]
             /\ n = 2 => _OWNER[tgt] = named]_vars

\* With 3 players holding one territory each, the player with 10 troops
\* has made the first capture of the game, and the message names the
\* player who still holds the third territory, not the one who lost.
C16_Witness ==
  /\ op[1] = "attack" /\ result = "True"
  /\ NPlayers = 3
  /\ _TROOPS[op[2]] = 5 /\ _TROOPS[op[3]] = 5
  /\ Owned(_CUR) = {op[2], op[3]}
  /\ Owned(Prev) = Names \ {op[2], op[3]}
  /\ taken_from # << Prev >> /\ taken_from # << _CUR >>
  /\ \E t \in Names : _LAST = _PLAYERS[_CUR + 1] \o " took " \o t
                                \o " from " \o _PLAYERS[Prev + 1]

\* The places of consecutive names in the chains, the undirected pairs they
\* list, and the pairs listed more than once.
ChainPlaces ==
  {pl \in (1..Len(CONNECT)) \X (1..12) : pl[2] < Len(CONNECT[pl[1]])}
PairAt(pl) == {CONNECT[pl[1]][pl[2]], CONNECT[pl[1]][pl[2] + 1]}
ChainPairs == {PairAt(pl) : pl \in ChainPlaces}
RepeatedPairs ==
  {pr \in ChainPairs : Cardinality({pl \in ChainPlaces : PairAt(pl) = pr}) > 1}

NoRepeats(list) == \A i, j \in 1..Len(list) : list[i] = list[j] => i = j

GraphIsSetLike ==
  /\ \A t \in DOMAIN FullGraph : NoRepeats(FullGraph[t])
  /\ n_actions = 2 * Cardinality(ChainPairs)
  /\ _build_graph(FullGraph, CONNECT) = FullGraph
  /\ \A t \in Names : NoRepeats(_NEIGHBORS[t])

\* C17 as stated: the chains list several pairs more than once, yet no
\* neighbour list holds a name twice, n_actions is twice the number of
\* distinct undirected pairs, and building again changes nothing.
C17_AsStated ==
  /\ Cardinality(RepeatedPairs) >= 2
  /\ GraphIsSetLike

\* C17 (amended): the chains list one pair, Afghanistan--Ural, more than
\* once, yet no neighbour list holds a name twice, n_actions is twice the
\* number of distinct undirected pairs, and building again changes nothing.
C17_AdjacencyListsAreSets ==
  /\ RepeatedPairs = {{"Afghanistan", "Ural"}}
  /\ GraphIsSetLike

\* The graph of the 83 pairs is built and in use by a game: Afghanistan
\* has Ural among its neighbours and n_actions is 166.
C17_Witness ==
  /\ op[1] = "reset"
  /\ "Ural" \in Elems(FullGraph["Afghanistan"])
  /\ Cardinality(ChainPairs) = 83
  /\ n_actions = 166

OwnedIn(owners, p) == {t \in Names : owners[t] = p}

\* C18: a successful attack changes nothing but the owner of tgt, the
\* troops of att and tgt and the message: the turn pointer, the players and
\* every other territory stay, so the same player may attack again; the
\* attacker has one territory more and the former owner one less.
C18_SuccessFrame ==
  [][\A att, tgt \in Names :
       (AttackCalled(att, tgt) /\ result' = "True") =>
         /\ _CUR' = _CUR /\ _PLAYERS' = _PLAYERS /\ _NEIGHBORS' = _NEIGHBORS
         /\ _OWNER'[att] = _OWNER[att]
         /\ \A t \in Names \ {att, tgt} :
              _OWNER'[t] = _OWNER[t] /\ _TROOPS'[t] = _TROOPS[t]
         /\ _OWNER'[tgt] # _OWNER[tgt]
         /\ _TROOPS'[att] < _TROOPS[att]
         /\ Cardinality(OwnedIn(_OWNER', _CUR))
              = Cardinality(OwnedIn(_OWNER, _CUR)) + 1
         /\ Cardinality(OwnedIn(_OWNER', _OWNER[tgt]))
              = Cardinality(OwnedIn(_OWNER, _OWNER[tgt])) - 1]_vars

\* The current player has made two captures: 10 troops became 5 and 5,
\* then one of the 5 became 3 and 2, and the turn is still theirs.
C18_Witness ==
  /\ op[1] = "attack" /\ result = "True"
  /\ Owned(_CUR) = Names
  /\ _TROOPS[op[2]] = 3 /\ _TROOPS[op[3]] = 2
  /\ \E t \in Names \ {op[2], op[3]} : _TROOPS[t] = 5

\* C19: from the import on, with reset(n), n >= 1, attack and next_player,
\* no attack succeeds, every territory holds 1 troop, ownership and the
\* value of game_over() change only at a reset, and game_over() is false in
\* every game with 2 <= n <= number of territories.
C19_NoAttackEverSucceeds ==
  [][/\ result' # "True"
     /\ \A t \in DOMAIN _TROOPS' : _TROOPS'[t] = 1
     /\ (op'[1] # "reset" /\ DOMAIN _OWNER # {}) =>
          (_OWNER' = _OWNER /\ (game_over' <=> game_over))
     /\ (2 <= Len(_PLAYERS') /\ Len(_PLAYERS') <= Cardinality(Names)) =>
          ~game_over']_vars

\* In a 2-player game the second player has attacked a linked territory of
\* the first and failed for lack of troops.
C19_Witness ==
  /\ op[1] = "attack" /\ result = "False" /\ _LAST = "Not enough troops"
  /\ NPlayers = 2 /\ _CUR = 1
  /\ _OWNER[op[2]] = 1 /\ _OWNER[op[3]] = 0
  /\ ~game_over

RECURSIVE SumTroops(_, _)
SumTroops(troops, keys) ==
  IF keys = {} THEN 0
  ELSE LET k == CHOOSE x \in keys : TRUE
       IN  troops[k] + SumTroops(troops, keys \ {k})

\* C20: the total number of troops does not change on a failed attack or
\* next_player(), and a successful attack(att, tgt) lowers it by exactly the
\* troops tgt had, so it strictly decreases.
C20_TotalTroopsNeverGrow ==
  [][/\ op'[1] = "next_player" =>
          SumTroops(_TROOPS', Names) = SumTroops(_TROOPS, Names)
     /\ \A att, tgt \in Names :
          AttackCalled(att, tgt) =>
            IF result' = "True"
            THEN /\ SumTroops(_TROOPS', Names)
                      = SumTroops(_TROOPS, Names) - _TROOPS[tgt]
                 /\ SumTroops(_TROOPS', Names) < SumTroops(_TROOPS, Names)
            ELSE SumTroops(_TROOPS', Names) = SumTroops(_TROOPS, Names)]_vars

\* 10 troops have taken a territory of 1 defender: of the 12 troops of the
\* board 11 are left.
C20_Witness ==
  /\ op[1] = "attack" /\ result = "True"
  /\ _TROOPS[op[2]] = 5 /\ _TROOPS[op[3]] = 5
  /\ SumTroops(_TROOPS, Names) = 11

====
